---- MODULE Spec2Model ----
(***************************************************************************)
(* portgraph: the recursive dependency-graph builder of                    *)
(* src/portgraph/portgraph.py (class Portgraph, graph4port,                *)
(* graph4allports).                                                        *)
(*                                                                         *)
(* Strings are sequences of tokens.  A token is either one of the two      *)
(* separator characters the code looks for ("/" = os.sep, "@" = the flavor *)
(* mark) or a maximal run of other characters ("editors", "foo", "py3").   *)
(* rfind, find, split and join only look at separators, so they are        *)
(* computed on token sequences exactly as Python computes them on          *)
(* characters.                                                             *)
(***************************************************************************)
EXTENDS Integers, Sequences, FiniteSets, TLC

VARIABLES
    mode,        \* "single" (main -> graph4port), "all" (main -> graph4allports),
                 \* "passes" (graph4port called for one port with -b -r, -r, -b),
                 \* "suppress" (graph4port called for one port without and with -w),
                 \* "batch" (graph4allports, then graph4port for one of its ports)
                 \* or "canon" (a bare call of _flavorname2port)
    calls,       \* the graph4port calls this run makes, in order (their arguments)
    idx,         \* index in calls of the current / next graph4port call
    pc,          \* position of the program; "exit" when main returns, "OSError" or
                 \* "RenderError" when it dies of that uncaught exception
    self,        \* the fields of the current Portgraph object
    graph,       \* the Digraph of the current call: [name, nodes, edges]
    stack,       \* the frames of _recurseports, innermost last
    rendered,    \* the artifacts written by graph.render, in order
    oracle,      \* what `make -C dir <kind>-depends-list` answers, per <<kind, dir>>
    unmaintained,\* the port directories whose maintainer is ports@FreeBSD.org
    log,         \* every subprocess the program has started, in order
    seen,        \* every dependency line the program has read, in order
    canon_in,    \* mode "canon": the argument of _flavorname2port
    canon_out    \* mode "canon": the successive results of _flavorname2port

vars == <<mode, calls, idx, pc, self, graph, stack, rendered, oracle,
          unmaintained, log, seen, canon_in, canon_out>>

(***************************************************************************)
(* Bounds of the model.                                                    *)
(***************************************************************************)
\* the longest dependency list the oracle prints for one port
MaxDeps == 2
\* the number of dependency lines the oracle prints in one run, all ports together
MaxEntries == 3
\* the largest finite recursion limit tried (-1, the default, is always tried)
MaxRecursion == 2
\* the longest string given to a bare call of _flavorname2port, in tokens
MaxLen == 4

(***************************************************************************)
(* Python's string and path functions, on token sequences.                 *)
(***************************************************************************)
os_sep == "/"

RECURSIVE FindFrom(_, _, _)
FindFrom(s, c, i) ==
    IF i > Len(s) THEN -1 ELSE IF s[i] = c THEN i - 1 ELSE FindFrom(s, c, i + 1)

RECURSIVE RFindFrom(_, _, _)
RFindFrom(s, c, i) ==
    IF i < 1 THEN -1 ELSE IF s[i] = c THEN i - 1 ELSE RFindFrom(s, c, i - 1)

\* s.rfind(c): 0-based index of the last c in s, -1 when there is none
rfind(s, c) == RFindFrom(s, c, Len(s))

\* s.find(c): 0-based index of the first c in s, -1 when there is none
find(s, c) == FindFrom(s, c, 1)

\* Python's index normalisation for slices: negative indices count from the end
SliceIndex(s, i) ==
    IF i < 0 THEN (IF Len(s) + i < 0 THEN 0 ELSE Len(s) + i)
    ELSE (IF i > Len(s) THEN Len(s) ELSE i)

\* s[a:b]
Slice(s, a, b) == SubSeq(s, SliceIndex(s, a) + 1, SliceIndex(s, b))

\* s[:b]
SliceTo(s, b) == Slice(s, 0, b)

\* s[a:]
SliceFrom(s, a) == Slice(s, a, Len(s))

\* s.split(c): the list of the pieces of s between the occurrences of c
RECURSIVE split(_, _)
split(s, c) ==
    LET i == find(s, c)
    IN  IF i = -1 THEN <<s>>
        ELSE <<SliceTo(s, i)>> \o split(SliceFrom(s, i + 1), c)

\* c.join(pieces)
RECURSIVE join(_, _)
join(c, pieces) ==
    IF pieces = <<>> THEN <<>>
    ELSE IF Len(pieces) = 1 THEN pieces[1]
    ELSE pieces[1] \o <<c>> \o join(c, Tail(pieces))

\* os.path.join(a, b) on POSIX
os_path_join(a, b) ==
    IF b # <<>> /\ b[1] = os_sep THEN b
    ELSE IF a = <<>> \/ a[Len(a)] = os_sep THEN a \o b
    ELSE a \o <<os_sep>> \o b

\* x in list
In(x, list) == \E i \in 1..Len(list) : list[i] = x

(***************************************************************************)
(* Portgraph's two static helpers.                                         *)
(***************************************************************************)
_flavorname2port(flavorname) ==
    LET sup_flavor == IF rfind(flavorname, "@") = -1 THEN Len(flavorname)
                      ELSE rfind(flavorname, "@")
    IN  SliceTo(flavorname, sup_flavor)

_fullname2port(name) == join(os_sep, SliceFrom(split(name, os_sep), -2))

(***************************************************************************)
(* The ports tree and the command line.                                    *)
(***************************************************************************)
\* -l: the default of main()
localbase == <<"/", "usr", "/", "ports">>

foo == <<"editors", "/", "foo">>
bar == <<"devel", "/", "bar">>
ports_mgmt_pkg == <<"ports-mgmt", "/", "pkg">>

NoFlavor == <<>>
py3 == <<"py3">>

\* a line of `make ... -DDEPENDS_SHOW_FLAVOR`: the port's directory, with @flavor
\* when the dependency names one
DepLine(port, flavor) ==
    os_path_join(localbase, port) \o (IF flavor = NoFlavor THEN <<>> ELSE <<"@">> \o flavor)

\* the lines the oracle may print
DepValues ==
    { DepLine(foo, NoFlavor), DepLine(bar, NoFlavor), DepLine(bar, py3),
      DepLine(ports_mgmt_pkg, NoFlavor) }

\* the directories of localbase, as os.scandir lists them: [name, is_dir, entries]
PortsTree ==
    << [name |-> "Mk", is_dir |-> TRUE,
        entries |-> << [name |-> "Uses", is_dir |-> TRUE] >>],
       [name |-> "MOVED", is_dir |-> FALSE, entries |-> <<>>],
       [name |-> "editors", is_dir |-> TRUE,
        entries |-> << [name |-> "Makefile", is_dir |-> FALSE],
                       [name |-> "foo", is_dir |-> TRUE] >>],
       [name |-> "devel", is_dir |-> TRUE,
        entries |-> << [name |-> "bar", is_dir |-> TRUE] >>],
       [name |-> "ports-mgmt", is_dir |-> TRUE,
        entries |-> << [name |-> "pkg", is_dir |-> TRUE] >>] >>

\* the names graph4allports skips
NotPorts == {"Mk", "distfiles", "Tools", "Templates", "Keywords", "base"}

\* the ports graph4allports calls graph4port for, in order
RECURSIVE AllPorts(_)
AllPorts(cats) ==
    IF cats = <<>> THEN <<>>
    ELSE LET cat == Head(cats)
             IsDir(rec) == rec.is_dir
             ports == SelectSeq(cat.entries, IsDir)
         IN  [i \in 1..Len(ports) |-> os_path_join(<<cat.name>>, <<ports[i].name>>)]
             \o AllPorts(Tail(cats))

IsCategory(rec) == rec.is_dir /\ rec.name \notin NotPorts

graph4allports_ports == AllPorts(SelectSeq(PortsTree, IsCategory))

\* the dependency kinds of build_graph: depends_args = [kind, colour]
BuildArgs == <<"build", "#009999">>
RunArgs == <<"run", "#990000">>

\* the answer of `make -C dir maintainer`
Maintainer(dir) ==
    IF dir \in unmaintained THEN "ports@FreeBSD.org" ELSE "dev@FreeBSD.org"

(***************************************************************************)
(* Portgraph._add_node                                                     *)
(***************************************************************************)
\* faulty variant: the maintainer is looked up and used without -t too
NodeStyleAlways(slf, ports) ==
    IF Maintainer(_flavorname2port(ports)) = "ports@FreeBSD.org"
    THEN [color |-> "red", style |-> "bold"]
    ELSE [color |-> "black", style |-> "filled"]

\* lines 87-96: the colour and style of the node, and the subprocess it costs
NodeStyle(slf, ports) ==
    IF slf.abandoned /\ Maintainer(_flavorname2port(ports)) = "ports@FreeBSD.org"
    THEN [color |-> "red", style |-> "bold"]
    ELSE [color |-> "black", style |-> "filled"]

MaintainerCalls(slf, ports) ==
    IF slf.abandoned
    THEN << [target |-> "maintainer", dir |-> _flavorname2port(ports),
             flavor |-> NoFlavor, ports |-> ports] >>
    ELSE <<>>

\* faulty variant: ports-mgmt/pkg is let through without -w too
ShownAlways(slf, name) == TRUE

\* lines 98-100 and 138-140: the test that lets a node or an edge head through
Shown(slf, name) ==
    (name # slf.pkg) \/ ((name = slf.pkg) /\ slf.with_pkg)

\* lines 98-106: the graph after self.graph.node(...)
_add_node(g, slf, ports) ==
    IF Shown(slf, _fullname2port(ports))
    THEN [g EXCEPT !.nodes = Append(@, [name  |-> _fullname2port(ports),
                                        color |-> NodeStyle(slf, ports).color,
                                        style |-> NodeStyle(slf, ports).style])]
    ELSE g

\* faulty variant: the edge is drawn only to a dependency not visited before
AddEdgeIfNew(g, slf, ports, dep_port, depends_args) ==
    IF In(dep_port, slf.all_ports) \/ dep_port = ports
       \/ ~Shown(slf, _fullname2port(dep_port))
    THEN g
    ELSE [g EXCEPT !.edges = Append(@, [tail  |-> _fullname2port(ports),
                                        head  |-> _fullname2port(dep_port),
                                        color |-> depends_args[2]])]

\* lines 135-141: the graph after the edge of one dependency line
AddEdge(g, slf, ports, dep_port, depends_args) ==
    LET portname == _fullname2port(ports)
        depportname == _fullname2port(dep_port)
    IN  IF Shown(slf, depportname)
        THEN [g EXCEPT !.edges = Append(@, [tail  |-> portname,
                                            head  |-> depportname,
                                            color |-> depends_args[2]])]
        ELSE g

(***************************************************************************)
(* The dependency oracle: `make -C dir <kind>-depends-list [FLAVOR=f]`.    *)
(* Its answer for a directory is fixed the first time the program asks and *)
(* is the same whenever it asks again.                                     *)
(***************************************************************************)
\* every list of at most n lines
Lists(n) == UNION {[1..k -> DepValues] : k \in 0..n}

RECURSIVE Printed(_, _)
\* the number of lines the answers of the keys in ks hold
Printed(orc, ks) ==
    IF ks = {} THEN 0
    ELSE LET k == CHOOSE x \in ks : TRUE
         IN  Len(orc[k].lines) + Printed(orc, ks \ {k})

NoFault(orc) == \A k \in DOMAIN orc : orc[k].status = "ok"

\* the answers a first query can get: a list of lines; or make fails (no such
\* directory: nothing on stdout); or Popen itself raises OSError (no make)
Replies(orc) ==
    LET left == MaxEntries - Printed(orc, DOMAIN orc)
        n == IF left < MaxDeps THEN left ELSE MaxDeps
    IN  {[status |-> "ok", lines |-> l] : l \in Lists(n)}
        \cup (IF NoFault(orc)
              THEN {[status |-> "nodir", lines |-> <<>>],
                    [status |-> "oserror", lines |-> <<>>]}
              ELSE {})

(***************************************************************************)
(* graph4port and Portgraph.build_graph                                    *)
(***************************************************************************)
Frame(ports, flavor, depends_args, max_recurse) ==
    [ports |-> ports, flavor |-> flavor, depends_args |-> depends_args,
     max_recurse |-> max_recurse, pc |-> "entry", stdout |-> <<>>]

\* Portgraph.__init__
Portgraph(a) ==
    [port |-> a.port, localbase |-> localbase, flavor |-> a.flavor,
     with_pkg |-> a.with_pkg, recursion |-> a.recursion, build |-> a.build,
     run |-> a.run, abandoned |-> a.abandoned, all_ports |-> <<>>,
     pkg |-> ports_mgmt_pkg]

\* lines 204-207: the name of the Digraph
GraphName(a) ==
    SliceFrom(a.port, find(a.port, "/") + 1)
        \o (IF a.flavor # NoFlavor THEN <<"@">> \o a.flavor ELSE <<>>)

Category(a) == SliceTo(a.port, find(a.port, "/"))

\* faulty variant: the Portgraph objects share one list
SharedAllPorts(previous) == previous

\* line 36: self.all_ports = [] is a new list for every Portgraph, whatever
\* the list of the Portgraph before it holds
NewAllPorts(previous) == <<>>

\* lines 204-223: a fresh Digraph and a fresh Portgraph for the port
Graph4Port ==
    /\ pc = "graph4port"
    /\ graph' = [name |-> GraphName(calls[idx]), nodes |-> <<>>, edges |-> <<>>]
    /\ self' = [Portgraph(calls[idx]) EXCEPT !.all_ports = NewAllPorts(self.all_ports)]
    /\ pc' = "build_graph"
    /\ UNCHANGED <<mode, calls, idx, stack, rendered, oracle, unmaintained, log,
                   canon_in, canon_out, seen>>

\* lines 62-63
FlavoredPort(slf) ==
    IF slf.flavor # NoFlavor THEN slf.port \o <<"@">> \o slf.flavor ELSE slf.port

\* lines 62-71: the flavor is appended to the port, the Build pass starts
BuildGraph ==
    /\ pc = "build_graph"
    /\ self' = [self EXCEPT !.port = FlavoredPort(self)]
    /\ stack' = IF self.build
                THEN << Frame(os_path_join(self.localbase, FlavoredPort(self)),
                              self.flavor, BuildArgs, self.recursion) >>
                ELSE <<>>
    /\ pc' = "build"
    /\ UNCHANGED <<mode, calls, idx, graph, rendered, oracle, unmaintained, log,
                   canon_in, canon_out, seen>>

\* lines 72-78: the Build pass is over, the Run pass starts
BuildGraphRun ==
    /\ pc = "build"
    /\ stack = <<>>
    /\ self.run
    /\ stack' = << Frame(os_path_join(self.localbase, self.port),
                         self.flavor, RunArgs, self.recursion) >>
    /\ pc' = "run"
    /\ UNCHANGED <<mode, calls, idx, self, graph, rendered, oracle, unmaintained,
                   log, canon_in, canon_out, seen>>

\* build_graph returns to graph4port
BuildGraphReturn ==
    /\ \/ pc = "build" /\ ~self.run
       \/ pc = "run"
    /\ stack = <<>>
    /\ pc' = "render"
    /\ UNCHANGED <<mode, calls, idx, self, graph, stack, rendered, oracle,
                   unmaintained, log, canon_in, canon_out, seen>>

\* lines 225-227: the artifact is written; the next port of the batch, or the end
Render ==
    /\ pc = "render"
    /\ rendered' = Append(rendered,
                          [file |-> os_path_join(Category(calls[idx]), graph.name),
                           port |-> calls[idx].port,
                           nodes |-> graph.nodes, edges |-> graph.edges])
    /\ idx' = idx + 1
    /\ pc' = IF idx + 1 <= Len(calls) THEN "graph4port" ELSE "exit"
    /\ UNCHANGED <<mode, calls, self, graph, stack, oracle, unmaintained, log,
                   canon_in, canon_out, seen>>

\* line 227: graph.render raises (no dot executable, dot fails); nothing catches it
RenderFails ==
    /\ pc = "render"
    /\ pc' = "RenderError"
    /\ UNCHANGED <<mode, calls, idx, self, graph, stack, rendered, oracle,
                   unmaintained, log, canon_in, canon_out, seen>>

(***************************************************************************)
(* Portgraph._recurseports                                                 *)
(***************************************************************************)
Top == stack[Len(stack)]
Pop == SubSeq(stack, 1, Len(stack) - 1)
Running == pc \in {"build", "run"} /\ stack # <<>>

\* faulty variant: the test of line 109 written as max_recurse <= 0
DepthExhaustedOrUnlimited(max_recurse) == max_recurse <= 0

\* line 109: the depth budget is used up (-1 and below never are)
DepthExhausted(max_recurse) == max_recurse = 0

\* faulty variant: the budget is handed down as it is
RecurseBudgetKept(max_recurse) == max_recurse

\* line 145: the budget of the recursive call, max_recurse - 1
RecurseBudget(max_recurse) == max_recurse - 1

\* lines 109-110
RecurseReturn ==
    /\ Running
    /\ Top.pc = "entry"
    /\ DepthExhausted(Top.max_recurse)
    /\ stack' = Pop
    /\ UNCHANGED <<mode, calls, idx, pc, self, graph, rendered, oracle,
                   unmaintained, log, canon_in, canon_out, seen>>

DependsCall(f) ==
    [target |-> f.depends_args[1], dir |-> _flavorname2port(f.ports),
     flavor |-> f.flavor, ports |-> f.ports]

OracleKey(f) == <<f.depends_args[1], _flavorname2port(f.ports), f.flavor>>

\* lines 112-129: the node of the port, then the dependency query
RecurseQuery ==
    /\ Running
    /\ Top.pc = "entry"
    /\ ~DepthExhausted(Top.max_recurse)
    /\ graph' = _add_node(graph, self, Top.ports)
    /\ log' = log \o MaintainerCalls(self, Top.ports) \o <<DependsCall(Top)>>
    /\ \E reply \in IF OracleKey(Top) \in DOMAIN oracle
                    THEN {oracle[OracleKey(Top)]} ELSE Replies(oracle) :
          /\ oracle' = IF OracleKey(Top) \in DOMAIN oracle THEN oracle
                       ELSE (OracleKey(Top) :> reply) @@ oracle
          /\ IF reply.status = "oserror"
             THEN /\ pc' = "OSError"
                  /\ stack' = <<>>
             ELSE /\ pc' = pc
                  /\ stack' = [stack EXCEPT ![Len(stack)] =
                                  [@ EXCEPT !.pc = "loop", !.stdout = reply.lines]]
    /\ UNCHANGED <<mode, calls, idx, self, rendered, unmaintained,
                   canon_in, canon_out, seen>>

\* faulty variant: the flavor of the recursive call is the one the line names
FlavorOfLine(flavor, dep_port) ==
    IF rfind(dep_port, "@") = -1 THEN NoFlavor
    ELSE SliceFrom(dep_port, rfind(dep_port, "@") + 1)

\* line 145: the flavor of the recursive call is the flavor of this call
RecurseFlavor(flavor, dep_port) == flavor

\* faulty variant: every dependency counts as visited, none is recursed into
VisitedAlways(dep_port, all_ports) == TRUE

\* line 142: dep_port in self.all_ports
Visited(dep_port, all_ports) == In(dep_port, all_ports)

\* lines 131-145: one line of the dependency list
ReadLine ==
    /\ Running
    /\ Top.pc = "loop"
    /\ Top.stdout # <<>>
    /\ LET ports == Top.ports
           dep_port == Head(Top.stdout)
           all1 == Append(self.all_ports, ports)
           g1 == AddEdge(graph, self, ports, dep_port, Top.depends_args)
           rest == [stack EXCEPT ![Len(stack)] = [@ EXCEPT !.stdout = Tail(@)]]
       IN  IF ~Visited(dep_port, all1)
           THEN /\ graph' = _add_node(g1, self, dep_port)
                /\ log' = log \o MaintainerCalls(self, dep_port)
                /\ self' = [self EXCEPT !.all_ports = Append(all1, dep_port)]
                /\ stack' = Append(rest, Frame(dep_port,
                                               RecurseFlavor(Top.flavor, dep_port),
                                               Top.depends_args,
                                               RecurseBudget(Top.max_recurse)))
           ELSE /\ graph' = g1
                /\ log' = log
                /\ self' = [self EXCEPT !.all_ports = all1]
                /\ stack' = rest
    /\ seen' = Append(seen, [ports |-> Top.ports, dep_port |-> Head(Top.stdout),
                             depends_args |-> Top.depends_args])
    /\ UNCHANGED <<mode, calls, idx, pc, rendered, oracle, unmaintained,
                   canon_in, canon_out>>

\* lines 146-147: end of the list, the call returns
EndOfList ==
    /\ Running
    /\ Top.pc = "loop"
    /\ Top.stdout = <<>>
    /\ stack' = Pop
    /\ UNCHANGED <<mode, calls, idx, pc, self, graph, rendered, oracle,
                   unmaintained, log, canon_in, canon_out, seen>>

Next ==
    \/ Graph4Port
    \/ BuildGraph
    \/ BuildGraphRun
    \/ BuildGraphReturn
    \/ Render
    \/ RenderFails
    \/ RecurseReturn
    \/ RecurseQuery
    \/ ReadLine
    \/ EndOfList

(***************************************************************************)
(* The runs.                                                               *)
(***************************************************************************)
Recursions == {-1} \cup 0..MaxRecursion

\* lines 306-309: the options of the command line, -b defaulting as main does
Args(port, flavor, with_pkg, recursion, b, r, abandoned) ==
    [port |-> port, flavor |-> flavor, with_pkg |-> with_pkg,
     recursion |-> recursion, build |-> IF ~b /\ ~r THEN TRUE ELSE b, run |-> r,
     abandoned |-> abandoned]

Dir(port) == os_path_join(localbase, port)

NoSelf == Portgraph(Args(foo, NoFlavor, FALSE, -1, TRUE, FALSE, FALSE))
NoGraph == [name |-> <<>>, nodes |-> <<>>, edges |-> <<>>]

InitRun ==
    /\ idx = 1
    /\ pc = "graph4port"
    /\ self = NoSelf
    /\ graph = NoGraph
    /\ stack = <<>>
    /\ rendered = <<>>
    /\ log = <<>>
    /\ seen = <<>>
    /\ canon_in = <<>>
    /\ canon_out = <<>>

\* main, lines 325-339: one port, one pass (-b or -r), without -t
Init ==
    /\ mode = "single"
    /\ \E flavor \in {NoFlavor, py3}, with_pkg \in BOOLEAN, recursion \in Recursions,
          r \in BOOLEAN :
          calls = << Args(foo, flavor, with_pkg, recursion, FALSE, r, FALSE) >>
    /\ unmaintained = {}
    /\ oracle = <<>>
    /\ InitRun

Spec == Init /\ [][Next]_vars

\* graph4port called three times for one port: -b -r, then -r, then -b
InitPasses ==
    /\ mode = "passes"
    /\ \E recursion \in {-1, 1} :
          calls = << Args(foo, NoFlavor, TRUE, recursion, TRUE, TRUE, FALSE),
                     Args(foo, NoFlavor, TRUE, recursion, FALSE, TRUE, FALSE),
                     Args(foo, NoFlavor, TRUE, recursion, TRUE, FALSE, FALSE) >>
    /\ unmaintained = {}
    /\ oracle = <<>>
    /\ InitRun

SpecPasses == InitPasses /\ [][Next]_vars

\* main, lines 311-324: every port of the tree, with the same options
InitAll ==
    /\ mode = "all"
    /\ \E with_pkg \in BOOLEAN, recursion \in {-1, 1}, r \in BOOLEAN :
          calls = [i \in 1..Len(graph4allports_ports) |->
                      Args(graph4allports_ports[i], NoFlavor, with_pkg, recursion,
                           FALSE, r, FALSE)]
    /\ unmaintained = {}
    /\ oracle = <<>>
    /\ InitRun

SpecAll == InitAll /\ [][Next]_vars

\* one port, with and without -t, over two sets of unmaintained ports
InitStyle ==
    /\ mode = "single"
    /\ \E flavor \in {NoFlavor, py3}, recursion \in {-1, 1}, r \in BOOLEAN,
          abandoned \in BOOLEAN :
          calls = << Args(foo, flavor, TRUE, recursion, FALSE, r, abandoned) >>
    /\ unmaintained \in {{Dir(bar)}, {Dir(foo), Dir(ports_mgmt_pkg)}}
    /\ oracle = <<>>
    /\ InitRun

SpecStyle == InitStyle /\ [][Next]_vars

\* the ports of the relations given whole, before the run
CycleDirs == {Dir(foo), Dir(bar), Dir(ports_mgmt_pkg)}

\* the lists of at most MaxDeps lines that a budget of `left` lines allows
ListsWithin(left) == Lists(IF left < MaxDeps THEN left ELSE MaxDeps)

\* the oracle that answers l[d] for directory d
Relation(kind, flavor, l) ==
    [k \in {<<kind, d, flavor>> : d \in CycleDirs} |->
        [status |-> "ok", lines |-> l[k[2]]]]

\* one port, one pass, over every dependency relation on CycleDirs within the
\* bounds: the oracle answers every query
\* (the two kinds differ in colour only: -r is tried with -w alone)
InitCycle ==
    /\ mode = "single"
    /\ \E with_pkg \in BOOLEAN, recursion \in Recursions, r \in BOOLEAN :
          /\ r => with_pkg
          /\ calls = << Args(foo, NoFlavor, with_pkg, recursion, FALSE, r, FALSE) >>
          /\ \E l1 \in ListsWithin(MaxEntries) :
             \E l2 \in ListsWithin(MaxEntries - Len(l1)) :
             \E l3 \in ListsWithin(MaxEntries - Len(l1) - Len(l2)) :
                oracle = Relation(IF r THEN "run" ELSE "build", NoFlavor,
                                  (Dir(foo) :> l1) @@ (Dir(bar) :> l2)
                                      @@ (Dir(ports_mgmt_pkg) :> l3))
    /\ unmaintained = {}
    /\ InitRun

SpecCycle == InitCycle /\ [][Next]_vars

\* graph4port called twice for one port over one oracle, without -w and then
\* with -w; ports-mgmt/pkg has no dependencies
\* (-r is tried with the default recursion alone)
InitSuppress ==
    /\ mode = "suppress"
    /\ \E recursion \in Recursions, r \in BOOLEAN :
          /\ r => recursion = -1
          /\ calls = << Args(foo, NoFlavor, FALSE, recursion, FALSE, r, FALSE),
                        Args(foo, NoFlavor, TRUE, recursion, FALSE, r, FALSE) >>
          /\ \E l1 \in ListsWithin(MaxEntries) :
             \E l2 \in ListsWithin(MaxEntries - Len(l1)) :
                oracle = Relation(IF r THEN "run" ELSE "build", NoFlavor,
                                  (Dir(foo) :> l1) @@ (Dir(bar) :> l2)
                                      @@ (Dir(ports_mgmt_pkg) :> <<>>))
    /\ unmaintained = {}
    /\ InitRun

SpecSuppress == InitSuppress /\ [][Next]_vars

\* the lines of a relation with two paths to one port that has a dependency:
\* one line more than MaxEntries
MaxRelation == MaxEntries + 1

\* the lines that name a port without a flavor
PlainValues == {DepLine(p, NoFlavor) : p \in {foo, bar, ports_mgmt_pkg}}

PlainLists(left) ==
    UNION {[1..k -> PlainValues] : k \in 0..(IF left < MaxDeps THEN left ELSE MaxDeps)}

\* one port, one pass with -w and a finite recursion limit of 1 or more, over
\* every relation of at most MaxRelation unflavored lines on CycleDirs
InitDepth ==
    /\ mode = "single"
    /\ \E recursion \in 1..MaxRecursion, r \in BOOLEAN :
          /\ calls = << Args(foo, NoFlavor, TRUE, recursion, FALSE, r, FALSE) >>
          /\ \E l1 \in PlainLists(MaxRelation) :
             \E l2 \in PlainLists(MaxRelation - Len(l1)) :
             \E l3 \in PlainLists(MaxRelation - Len(l1) - Len(l2)) :
                oracle = Relation(IF r THEN "run" ELSE "build", NoFlavor,
                                  (Dir(foo) :> l1) @@ (Dir(bar) :> l2)
                                      @@ (Dir(ports_mgmt_pkg) :> l3))
    /\ unmaintained = {}
    /\ InitRun

SpecDepth == InitDepth /\ [][Next]_vars

\* main with -a, and then main with -p for one port of the tree and the same
\* options, over one oracle: every relation of unflavored lines on CycleDirs
\* (-r is tried with -w, -b without)
InitBatch ==
    /\ mode = "batch"
    /\ \E recursion \in {-1, 1}, r \in BOOLEAN,
          p \in 1..Len(graph4allports_ports) :
          /\ calls = [i \in 1..Len(graph4allports_ports) |->
                         Args(graph4allports_ports[i], NoFlavor, r, recursion,
                              FALSE, r, FALSE)]
                     \o << Args(graph4allports_ports[p], NoFlavor, r, recursion,
                                FALSE, r, FALSE) >>
          /\ \E l1 \in PlainLists(MaxEntries) :
             \E l2 \in PlainLists(MaxEntries - Len(l1)) :
             \E l3 \in PlainLists(MaxEntries - Len(l1) - Len(l2)) :
                oracle = Relation(IF r THEN "run" ELSE "build", NoFlavor,
                                  (Dir(foo) :> l1) @@ (Dir(bar) :> l2)
                                      @@ (Dir(ports_mgmt_pkg) :> l3))
    /\ unmaintained = {}
    /\ InitRun

SpecBatch == InitBatch /\ [][Next]_vars

(***************************************************************************)
(* A bare call of _flavorname2port, applied to its own result.             *)
(***************************************************************************)
Tokens == {"devel", "/", "@"}

InitCanon ==
    /\ mode = "canon"
    /\ canon_in \in UNION {[1..n -> Tokens] : n \in 0..MaxLen}
    /\ canon_out = <<>>
    /\ calls = <<>>
    /\ idx = 1
    /\ pc = "canon"
    /\ self = NoSelf
    /\ graph = NoGraph
    /\ stack = <<>>
    /\ rendered = <<>>
    /\ oracle = <<>>
    /\ unmaintained = {}
    /\ log = <<>>
    /\ seen = <<>>

\* canonical(x)
Canon1 ==
    /\ pc = "canon"
    /\ canon_out = <<>>
    /\ canon_out' = <<_flavorname2port(canon_in)>>
    /\ UNCHANGED <<mode, calls, idx, pc, self, graph, stack, rendered, oracle,
                   unmaintained, log, seen, canon_in>>

\* canonical(canonical(x))
Canon2 ==
    /\ pc = "canon"
    /\ Len(canon_out) = 1
    /\ canon_out' = Append(canon_out, _flavorname2port(canon_out[1]))
    /\ UNCHANGED <<mode, calls, idx, pc, self, graph, stack, rendered, oracle,
                   unmaintained, log, seen, canon_in>>

NextCanon == Canon1 \/ Canon2

SpecCanon == InitCanon /\ [][NextCanon]_vars

(***************************************************************************)
(* Vocabulary of the claims.                                               *)
(***************************************************************************)
Range(f) == {f[i] : i \in DOMAIN f}

\* the node keys of a graph, and the strings its edges join
NodeKeys(g) == {n.name : n \in Range(g.nodes)}
Endpoints(g) == {e.tail : e \in Range(g.edges)} \cup {e.head : e \in Range(g.edges)}

\* build_graph has returned: the graph is the one handed to the renderer
Built == pc \in {"render", "exit"}

\* the category/name of a dependency line or path, flavor removed
Canonical(name) == _flavorname2port(_fullname2port(name))

\* the number of elements of list that satisfy Test
Count(list, Test(_)) == Cardinality({i \in 1..Len(list) : Test(list[i])})

\* every string a traversal can hold: the root, with or without flavor, and the
\* lines of the oracle; and the category/name[@flavor] of each
Names == DepValues \cup {DepLine(foo, f) : f \in {NoFlavor, py3}}
PortOf == [n \in Names |-> _fullname2port(n)]

\* the package of each of these strings and of each category/name[@flavor]
PackageOf == [n \in Names \cup Range(PortOf) |-> Canonical(n)]

\* the dependency queries the program has made
DependsLog == SelectSeq(log, LAMBDA c : c.target \in {"build", "run"})

(***************************************************************************)
(* C1.  The two passes of one build do not disturb each other: the Run     *)
(* edges of a build with -b -r are the Run edges of a build of the same    *)
(* port with -r alone, and its Build edges those of a build with -b alone. *)
(***************************************************************************)
EdgesOfColor(g, color) ==
    {<<e.tail, e.head>> : e \in {x \in Range(g.edges) : x.color = color}}

C1_PassesIndependent ==
    (mode = "passes" /\ pc = "exit") =>
        /\ EdgesOfColor(rendered[1], RunArgs[2]) = EdgesOfColor(rendered[2], RunArgs[2])
        /\ EdgesOfColor(rendered[1], BuildArgs[2]) = EdgesOfColor(rendered[3], BuildArgs[2])

(***************************************************************************)
(* C2.  With with_pkg false, ports-mgmt/pkg is never a node of the graph   *)
(* nor the tail or head of an edge, whatever the dependency relation, the  *)
(* depth and the flavor, also when it is reached transitively and has      *)
(* dependencies of its own.                                                *)
(***************************************************************************)
C2_PkgNeverShown ==
    ~self.with_pkg =>
        /\ ports_mgmt_pkg \notin NodeKeys(graph)
        /\ ports_mgmt_pkg \notin Endpoints(graph)

(***************************************************************************)
(* C3.  In every state of a build every node key and every edge endpoint   *)
(* is a category/name without @flavor, whether the flavor comes from the   *)
(* -f option or from a dependency line of the oracle.                      *)
(***************************************************************************)
C3_NoFlavorInGraph ==
    \A name \in NodeKeys(graph) \cup Endpoints(graph) :
        ~In("@", name)

(***************************************************************************)
(* C4.  A build with recursion 0 gives exactly the root node (the root is  *)
(* editors/foo, never the suppressed package) and no edge.                 *)
(***************************************************************************)
C4_DepthZeroIsRoot ==
    (Built /\ self.recursion = 0) =>
        /\ {Canonical(k) : k \in NodeKeys(graph)} = {calls[1].port}
        /\ graph.edges = <<>>

(***************************************************************************)
(* C5.  As claimed: for every dependency relation with a cycle and every   *)
(* recursion limit, the build terminates and every package on the cycle is *)
(* in the node set.  (Stated here for limits other than 0, with a flavored  *)
(* node key counted as a node of its package, and leaving out the          *)
(* suppressed ports-mgmt/pkg.)                                             *)
(* As amended: the build terminates for every relation and every limit;    *)
(* with the unlimited recursion of -1, every package on a cycle that can   *)
(* be reached from the root has a node when the build returns, except      *)
(* ports-mgmt/pkg when it is suppressed.                                   *)
(* Termination is shown by a variant: StepsLeft is a natural number that   *)
(* every step of the program makes smaller.  It counts the names not yet   *)
(* in all_ports (only those are recursed into), the frames, the frames not *)
(* yet past line 109 and the lines not yet read, below the position of     *)
(* the program and the calls of graph4port still to make.                  *)
(***************************************************************************)
RECURSIVE Unread(_)
\* the lines the frames of stk have still to read
Unread(stk) == IF stk = <<>> THEN 0 ELSE Len(Head(stk).stdout) + Unread(Tail(stk))

\* what one name still to visit can cost: a frame, its entry, its lines
PerName == MaxDeps + 3

TraversalLeft ==
    PerName * Cardinality(Names \ Range(self.all_ports))
    + (MaxDeps + 1) * Count(stack, LAMBDA f : f.pc = "entry")
    + Unread(stack)
    + Len(stack)

\* more than TraversalLeft can ever be
PerPosition == PerName * (Cardinality(Names) + 1) + (MaxDeps + 2) * (Cardinality(Names) + 2)

Position ==
    CASE pc = "graph4port" -> 5
      [] pc = "build_graph" -> 4
      [] pc = "build" -> 3
      [] pc = "run" -> 2
      [] pc = "render" -> 1
      [] OTHER -> 0

StepsLeft ==
    6 * PerPosition * (Len(calls) + 1 - idx) + PerPosition * Position + TraversalLeft

\* the packages the oracle lists for package p
DepsOf(p) ==
    UNION {{PackageOf[l] : l \in Range(oracle[k].lines)} :
              k \in {x \in DOMAIN oracle : x[2] = Dir(p)}}

RECURSIVE ReachFrom(_)
\* the packages of S and everything they depend on, directly or not
ReachFrom(S) ==
    LET more == S \cup UNION {DepsOf(p) : p \in S}
    IN  IF more = S THEN S ELSE ReachFrom(more)

OnCycle(p) == p \in ReachFrom(DepsOf(p))

\* the packages on a cycle that the root reaches
CyclePackages == {p \in ReachFrom({calls[1].port}) : OnCycle(p)}

NodePackages == {Canonical(k) : k \in NodeKeys(graph)}

Terminated == pc \in {"exit", "OSError", "RenderError"}

C6_BatchContinues ==
    (mode = "all" /\ pc \in {"OSError", "RenderError"}) =>
        \A j \in (idx + 1)..Len(calls) :
            \E i \in 1..Len(rendered) : rendered[i].port = calls[j].port

(***************************************************************************)
(* C7.  Within one traversal an edge is recorded for every dependency line *)
(* that is read and whose head is shown, also when the dependency was      *)
(* already visited, and no dependency value has its list queried twice: a  *)
(* list naming one dependency twice gives two edges and one expansion.     *)
(***************************************************************************)
EdgeOfLine(l) ==
    [tail |-> PortOf[l.ports], head |-> PortOf[l.dep_port],
     color |-> l.depends_args[2]]

RECURSIVE EdgesOfLines(_, _)
\* one edge per line whose head is shown, in the order of the lines
EdgesOfLines(slf, lines) ==
    IF lines = <<>> THEN <<>>
    ELSE (IF slf.with_pkg \/ PortOf[Head(lines).dep_port] # ports_mgmt_pkg
          THEN <<EdgeOfLine(Head(lines))>> ELSE <<>>)
         \o EdgesOfLines(slf, Tail(lines))

\* the values whose dependency list was queried, in order
Expanded == [i \in 1..Len(DependsLog) |-> DependsLog[i].ports]

C7_EdgePerLineOneExpansion ==
    /\ graph.edges = EdgesOfLines(self, seen)
    /\ Cardinality(Range(Expanded)) = Len(Expanded)

\* a list named devel/bar twice: both lines are read, devel/bar was expanded
C7_Witness ==
    /\ \E i \in 1..Len(seen) - 1 :
          /\ seen[i].ports = seen[i + 1].ports
          /\ seen[i].dep_port = seen[i + 1].dep_port
          /\ seen[i].dep_port = Dir(bar)
          /\ Count(graph.edges, LAMBDA e : e = EdgeOfLine(seen[i])) = 2
    /\ Count(DependsLog, LAMBDA c : c.ports = Dir(bar)) = 1
    /\ Built

(***************************************************************************)
(* C8.  Every emitted node is red and bold exactly when -t is given and    *)
(* the maintainer of its package is ports@FreeBSD.org, and black and       *)
(* filled otherwise; without -t `make maintainer` is never run.            *)
(***************************************************************************)
C8_StyleFollowsMaintainer ==
    /\ \A n \in Range(graph.nodes) :
          IF self.abandoned /\ Dir(Canonical(n.name)) \in unmaintained
          THEN n.color = "red" /\ n.style = "bold"
          ELSE n.color = "black" /\ n.style = "filled"
    /\ ~self.abandoned => \A c \in Range(log) : c.target # "maintainer"

\* with -t, a finished graph holds a node of each style
C8_Witness ==
    /\ Built
    /\ self.abandoned
    /\ \E n \in Range(graph.nodes) : n.color = "red" /\ n.style = "bold"
    /\ \E n \in Range(graph.nodes) : n.color = "black" /\ n.style = "filled"

(***************************************************************************)
(* C9.  _flavorname2port is idempotent on every name, also on names with   *)
(* more than one "@".                                                      *)
(***************************************************************************)
C9_Idempotent ==
    Len(canon_out) = 2 => canon_out[2] = canon_out[1]

(***************************************************************************)
(* C10.  When the oracle fails to produce the dependency list of a package *)
(* reached during a traversal, the build is not aborted, no node is        *)
(* emitted for that package, and the traversal goes on to the end.         *)
(***************************************************************************)
FailedDirs == {k[2] : k \in {x \in DOMAIN oracle : oracle[x].status # "ok"}}

C10_OracleFailureSkipsPackage ==
    \A dir \in FailedDirs :
        /\ pc # "OSError"
        /\ \A k \in NodeKeys(graph) : Canonical(k) # _fullname2port(dir)

(***************************************************************************)
(* C11.  When ports-mgmt/pkg has no dependencies, the graph of a build     *)
(* without -w is the graph of the same build with -w less the node of      *)
(* ports-mgmt/pkg and the edges into it.  For the Build chain              *)
(* editors/foo -> devel/bar -> ports-mgmt/pkg (with a recursion limit that *)
(* reaches the end of the chain) the build without -w gives the nodes      *)
(* editors/foo and devel/bar and the one edge editors/foo -> devel/bar,    *)
(* the build with -w three nodes and two edges.                            *)
(***************************************************************************)
OracleLines(p) == oracle[<<IF calls[1].run THEN "run" ELSE "build", Dir(p), NoFlavor>>].lines

Chain ==
    /\ ~calls[1].run
    /\ OracleLines(foo) = <<Dir(bar)>>
    /\ OracleLines(bar) = <<Dir(ports_mgmt_pkg)>>
    /\ OracleLines(ports_mgmt_pkg) = <<>>

C11_SuppressionRemovesPkg ==
    (mode = "suppress" /\ pc = "exit") =>
        /\ rendered[1].nodes =
              SelectSeq(rendered[2].nodes, LAMBDA n : n.name # ports_mgmt_pkg)
        /\ rendered[1].edges =
              SelectSeq(rendered[2].edges, LAMBDA e : e.head # ports_mgmt_pkg)
        /\ (Chain /\ calls[1].recursion \notin {0, 1}) =>
              /\ NodeKeys(rendered[1]) = {foo, bar}
              /\ rendered[1].edges =
                    << [tail |-> foo, head |-> bar, color |-> BuildArgs[2]] >>
              /\ NodeKeys(rendered[2]) = {foo, bar, ports_mgmt_pkg}
              /\ rendered[2].edges =
                    << [tail |-> foo, head |-> bar, color |-> BuildArgs[2]],
                       [tail |-> bar, head |-> ports_mgmt_pkg, color |-> BuildArgs[2]] >>

\* both builds of the chain are rendered, with the default recursion
C11_Witness ==
    /\ mode = "suppress"
    /\ pc = "exit"
    /\ Chain
    /\ calls[1].recursion = -1
    /\ Len(rendered) = 2
    /\ Cardinality(NodeKeys(rendered[1])) = 2
    /\ Cardinality(NodeKeys(rendered[2])) = 3

(***************************************************************************)
(* C12.  In a single pass with a finite recursion limit d >= 1, every      *)
(* package whose shortest distance from the root is less than d is         *)
(* expanded: when the build returns, each of its dependencies has a node   *)
(* and an edge from it, whatever the order of the oracle's lists, also     *)
(* when the traversal came to the package first by a longer path, with the *)
(* limit used up.                                                          *)
(***************************************************************************)
RECURSIVE Within(_)
\* the packages at most n dependency hops from the root
Within(n) ==
    IF n = 0 THEN {calls[1].port}
    ELSE LET near == Within(n - 1)
         IN  near \cup UNION {DepsOf(p) : p \in near}

\* the edges of the graph, as pairs of packages
EdgePairs(g) == {<<PackageOf[e.tail], PackageOf[e.head]>> : e \in Range(g.edges)}

C12_NearPackagesExpanded ==
    (Built /\ self.recursion >= 1) =>
        \A p \in Within(self.recursion - 1) :
            \A q \in DepsOf(p) :
                /\ Shown(self, q) => q \in NodePackages
                /\ Shown(self, q) => <<p, q>> \in EdgePairs(graph)

(***************************************************************************)
(* C13.  In a single pass with a finite recursion limit d >= 1 a package   *)
(* reached with the limit used up is not expanded: in every state every    *)
(* dependency query is for a package at most d-1 hops from the root, every *)
(* edge has its tail at most d-1 hops from the root, and every node is at  *)
(* most d hops from the root.                                              *)
(***************************************************************************)
C13_DepthBoundHolds ==
    self.recursion >= 1 =>
        LET near == Within(self.recursion - 1)
            far == near \cup UNION {DepsOf(p) : p \in near}
        IN  /\ \A c \in Range(DependsLog) : PackageOf[c.ports] \in near
            /\ \A e \in Range(graph.edges) : PackageOf[e.tail] \in near
            /\ \A n \in Range(graph.nodes) : PackageOf[n.name] \in far

\* a finished build with a finite limit d: a package d hops away has its node,
\* has dependencies, and was not asked for them
C13_Witness ==
    /\ Built
    /\ self.recursion >= 1
    /\ \E p \in Within(self.recursion) \ Within(self.recursion - 1) :
          /\ p \in NodePackages
          /\ DepsOf(p) # {}
          /\ \A c \in Range(DependsLog) : Canonical(c.ports) # p

(***************************************************************************)
(* C14.  In a single pass with the unlimited recursion of -1, over any     *)
(* dependency relation, when the build returns the packages with a node    *)
(* are the packages reachable from the root, less ports-mgmt/pkg without   *)
(* -w, and the distinct edges are the pairs (p, q) with p reachable from   *)
(* the root and q a dependency of p, less the pairs with q ports-mgmt/pkg  *)
(* without -w.  (A flavored node key or edge end is counted as its         *)
(* package.)                                                               *)
(***************************************************************************)
Reachable == ReachFrom({calls[1].port})

C14_UnlimitedIsReachability ==
    (Built /\ self.recursion = -1) =>
        /\ {PackageOf[n.name] : n \in Range(graph.nodes)}
              = {p \in Reachable : Shown(self, p)}
        /\ EdgePairs(graph)
              = UNION {{<<p, q>> : q \in {x \in DepsOf(p) : Shown(self, x)}} :
                          p \in Reachable}

\* an unlimited build without -w has returned over a relation in which the root
\* reaches ports-mgmt/pkg beyond devel/bar and ports-mgmt/pkg has a dependency
C14_Witness ==
    /\ Built
    /\ self.recursion = -1
    /\ ~self.with_pkg
    /\ Reachable = {foo, bar, ports_mgmt_pkg}
    /\ ports_mgmt_pkg \notin DepsOf(foo)
    /\ DepsOf(ports_mgmt_pkg) # {}
    /\ NodePackages = {foo, bar}

(***************************************************************************)
(* C15.  Within one pass every dependency query carries the flavor of the  *)
(* root (-f), and none when the root has none: at no depth does the flavor *)
(* named by a dependency line take its place.                              *)
(***************************************************************************)
C15_FlavorOfRootInEveryQuery ==
    /\ \A c \in Range(DependsLog) : c.flavor = calls[1].flavor
    /\ \A i \in 1..Len(stack) : stack[i].flavor = calls[1].flavor

\* the root has no flavor; the list of devel/bar@py3 named ports-mgmt/pkg, and
\* the list of ports-mgmt/pkg was asked for without a flavor
C15_Witness ==
    /\ calls[1].flavor = NoFlavor
    /\ Len(DependsLog) = 3
    /\ DependsLog[2].ports = DepLine(bar, py3)
    /\ DependsLog[3].ports = Dir(ports_mgmt_pkg)
    /\ DependsLog[3].flavor = NoFlavor
    /\ \E i \in 1..Len(seen) :
          seen[i].ports = DepLine(bar, py3) /\ seen[i].dep_port = Dir(ports_mgmt_pkg)

(***************************************************************************)
(* C16.  In a batch no visited list and no graph is shared between the     *)
(* ports: the graph rendered for a port by graph4allports is the graph     *)
(* rendered for it by a run for that port alone with the same options,     *)
(* whatever ports the batch processed before it.                           *)
(***************************************************************************)
BatchSize == Len(graph4allports_ports)

C16_BatchEqualsSingle ==
    (mode = "batch" /\ pc = "exit") =>
        /\ Len(rendered) = BatchSize + 1
        /\ \A i \in 1..BatchSize : rendered[i].port = graph4allports_ports[i]
        /\ \A i \in 1..BatchSize :
              rendered[i].port = rendered[BatchSize + 1].port
                  => rendered[i] = rendered[BatchSize + 1]

\* the batch and the single run are over; the port of the single run is the
\* last of the batch and depends on the two ports processed before it
C16_Witness ==
    /\ mode = "batch"
    /\ pc = "exit"
    /\ rendered[BatchSize + 1].port = graph4allports_ports[BatchSize]
    /\ rendered[BatchSize] = rendered[BatchSize + 1]
    /\ Cardinality(NodeKeys(rendered[BatchSize])) = 3
    /\ rendered[1].edges # <<>>

====
